---------------------------- MODULE Spec2Model ----------------------------
(***************************************************************************)
(* Model of victron-dbus-p1: the DSMR P1 telegram pipeline of dsmr.py       *)
(* (checksum table, crc16, TelegramParser.parse, SerialReader) and the      *)
(* acquisition loop of bridge.py (P1DbusBridge.run).                        *)
(*                                                                         *)
(* Text is modelled as sequences of character codes (a Python str that was  *)
(* decoded from ASCII bytes), None and exceptions as records with a kind.   *)
(***************************************************************************)
EXTENDS Integers, Sequences, FiniteSets, TLC

\* ---- TelegramParser.crc16_table and the constructions filling it
VARIABLES crc16_table,    \* the class attribute TelegramParser.crc16_table
    tpc,            \* per construction: position in TelegramParser.__init__
    ti,             \* per construction: loop variable i of the fill loop
    gil,            \* the construction currently running (interpreter lock)
    preempts,       \* number of preemptions so far
    \* ---- checksum of one text
    crcInput,       \* the text handed to crc16
    crcOut,         \* the value crc16 returned for it
    \* ---- CosemValue and parse applied to one text
    cosemLine,      \* the line handed to CosemValue
    cosemOut,       \* the object constructed from it, or the exception raised
    parseInput,     \* the framed text handed to parse
    parseOut,       \* what parse returned or raised for it
    \* ---- SerialReader.__init__
    cpc,            \* "new", "constructed" or "raised"
    cargs,          \* the arguments of the construction
    cself,          \* the fields set on the reader / the exception raised
    \* ---- P1DbusBridge.run
    pc,             \* position in run (the statement executed next)
    portExists,     \* os.path.exists(self.port)
    service,        \* self.service
    telegram,       \* the local variable telegram of run
    event,          \* what the last step signalled to the outside
    lastRead,       \* outcome of the last async_read and the loop it was in
    prevRead,       \* the same for the async_read before it
    lastRaw,        \* the framed text of the last async_read that framed one
    announces,      \* register_dbus completions since the last restart of run's outer loop
    polled,         \* whether the port path was polled since that restart
    readings,       \* per text of the meter: what read, register_dbus and update_dbus make of it
    waitNotes,      \* waiting messages printed since the port path last changed
    observed,       \* whether wait_for_p1_port saw the path exist since the last read
    waits,          \* the waits that elapsed since the last read was started
    handles,        \* serial handles open
    inflight,       \* calls of read submitted to the executor and not yet awaited to their end
    rpc,            \* position of the call of read: "none", "submitted", "reading", "exiting", "finished"
    routcome,       \* how _read_telegram ended: the exception, or the text framed
    \* ---- SerialReader._read_telegram
    fpc,            \* "reading", "returned" or "raised" (TimeoutError)
    inbuf,          \* the bytes waiting in the input buffer of the port
    wire,           \* the bytes the meter has still to send
    ftelegram,      \* the local variable telegram of _read_telegram
    fresult,        \* the text returned
    inbuf0,         \* the input buffer when the call started
    arrived,        \* whether bytes arrived during the call
    expired         \* whether a wait for a line expired during the call

tableVars == <<crc16_table, tpc, ti, gil, preempts>>
crcVars   == <<crcInput, crcOut>>
ctorVars  == <<cpc, cargs, cself>>
valueVars == <<cosemLine, cosemOut, parseInput, parseOut>>
sessionVars == <<handles, inflight, rpc, routcome>>
bridgeVars == <<pc, portExists, service, telegram, event, lastRead, prevRead, lastRaw, announces, polled,
                readings, waitNotes, observed, waits, sessionVars>>
framerVars == <<fpc, inbuf, wire, ftelegram, fresult, inbuf0, arrived, expired>>
vars == <<tableVars, crcVars, ctorVars, valueVars, bridgeVars, framerVars>>

-----------------------------------------------------------------------------
(* Characters *)

\* The printable characters used by the model, by code 32..126.
Printable ==
    <<" ", "!", "dquote", "#", "$", "%", "&", "'", "(", ")", "*", "+", ",", "-", ".", "/",
      "0", "1", "2", "3", "4", "5", "6", "7", "8", "9", ":", ";", "<", "=", ">", "?",
      "@", "A", "B", "C", "D", "E", "F", "G", "H", "I", "J", "K", "L", "M", "N", "O",
      "P", "Q", "R", "S", "T", "U", "V", "W", "X", "Y", "Z", "[", "backslash", "]", "^", "_",
      "backtick", "a", "b", "c", "d", "e", "f", "g", "h", "i", "j", "k", "l", "m", "n", "o",
      "p", "q", "r", "s", "t", "u", "v", "w", "x", "y", "z", "{", "|", "}", "~">>

\* ord(c) of a one-character string.
Ord(c) ==
    IF c = "\n" THEN 10
    ELSE IF c = "\r" THEN 13
    ELSE IF c = "\t" THEN 9
    ELSE 31 + (CHOOSE i \in 1..Len(Printable) : Printable[i] = c)

\* A text written as a tuple of one-character strings.
Text(cs) == [i \in 1..Len(cs) |-> Ord(cs[i])]

-----------------------------------------------------------------------------
(* Evaluation *)

\* Op applied to the value of v: v is evaluated once, however often Op uses
\* its argument (a local variable assigned once and read many times).
Bind(v, Op(_)) == CHOOSE r \in {Op(x) : x \in {v}} : TRUE

-----------------------------------------------------------------------------
(* Integer arithmetic of the checksum code *)

\* One bit of a ^ b, in place.
XorBit(a, b, k) == ((((a \div (2^k)) % 2) + ((b \div (2^k)) % 2)) % 2) * (2^k)

\* x ^ y for values below 2^16 (every value of the checksum code is).
XorBits(x, y) ==
      XorBit(x, y, 0) + XorBit(x, y, 1) + XorBit(x, y, 2) + XorBit(x, y, 3)
    + XorBit(x, y, 4) + XorBit(x, y, 5) + XorBit(x, y, 6) + XorBit(x, y, 7)
    + XorBit(x, y, 8) + XorBit(x, y, 9) + XorBit(x, y, 10) + XorBit(x, y, 11)
    + XorBit(x, y, 12) + XorBit(x, y, 13) + XorBit(x, y, 14) + XorBit(x, y, 15)

\* a ^ b
Xor(a, b) == Bind(a, LAMBDA x : Bind(b, LAMBDA y : XorBits(x, y)))

\* a & 0x0001 and a & 0x00ff: the masks the code uses keep the low bits.
BitAnd(a, mask) == a % (mask + 1)

\* ctypes.c_ushort(x).value
c_ushort(x) == x % 65536

\* x >> n
Shr(x, n) == x \div (2^n)

\* hex(n) for n >= 0: "0x" and the lowercase digits, no leading zeros.
HexDigitChar(d) == IF d < 10 THEN 48 + d ELSE 87 + d

RECURSIVE HexDigits(_)
HexDigits(n) ==
    IF n < 16 THEN <<HexDigitChar(n)>>
    ELSE Append(HexDigits(n \div 16), HexDigitChar(n % 16))

hex(n) == <<48, 120>> \o HexDigits(n)

\* The value of a hexadecimal digit character, -1 for any other character.
HexDigitVal(ch) ==
    IF ch >= 48 /\ ch <= 57 THEN ch - 48
    ELSE IF ch >= 97 /\ ch <= 102 THEN ch - 87
    ELSE IF ch >= 65 /\ ch <= 70 THEN ch - 55
    ELSE -1

RECURSIVE HexValue(_)
HexValue(s) ==
    IF s = <<>> THEN 0
    ELSE 16 * HexValue(SubSeq(s, 1, Len(s) - 1)) + HexDigitVal(s[Len(s)])

\* int(s, 0) of a string produced by hex(): the "0x" prefix selects base 16.
IntBase0(s) == Bind(s, LAMBDA t : HexValue(SubSeq(t, 3, Len(t))))

-----------------------------------------------------------------------------
(* TelegramParser.__init__: the checksum table *)

TableSize == 256
Poly == 40961      \* 0xA001

\* One round of the inner loop (j) of __init__.
Round(crc) ==
    Bind(crc, LAMBDA c : IF BitAnd(c, 1) # 0 THEN Xor(c_ushort(Shr(c, 1)), Poly)
                          ELSE c_ushort(Shr(c, 1)))

RECURSIVE Rounds(_, _)
Rounds(crc, j) == IF j = 0 THEN crc ELSE Rounds(Round(crc), j - 1)

\* The entry appended for loop value i: hex(crc) after the 8 rounds.
TableEntry(i) == hex(Rounds(c_ushort(i), 8))

\* The table after one undisturbed construction.
BuiltTable == [k \in 1..TableSize |-> TableEntry(k - 1)]

-----------------------------------------------------------------------------
(* TelegramParser.crc16 *)

\* Crc16Step with the running value shifted by 7 instead of 8 bits.
Crc16Step_Shift7(table, crc, d) ==
    LET tmp     == Xor(crc, d)
        rotated == c_ushort(Shr(crc, 7))
    IN  Xor(rotated, IntBase0(table[BitAnd(tmp, 255) + 1]))

\* One iteration of the loop over the characters, d = ord(c); table is
\* TelegramParser.crc16_table.
Crc16Step(table, crc, d) ==
    LET tmp     == Xor(crc, d)
        rotated == c_ushort(Shr(crc, 8))
    IN  Xor(rotated, IntBase0(table[BitAnd(tmp, 255) + 1]))

\* The loop over the characters lo..hi starting from the running value crc.
\* The loop is a left fold, so it is evaluated by halves: the first half's
\* result is the running value the second half starts from.
RECURSIVE Crc16Loop(_, _, _, _, _)
Crc16Loop(table, crc, text, lo, hi) ==
    IF lo > hi THEN crc
    ELSE IF lo = hi THEN Crc16Step(table, crc, text[lo])
    ELSE Bind(Crc16Loop(table, crc, text, lo, (lo + hi) \div 2),
              LAMBDA left : Crc16Loop(table, left, text, ((lo + hi) \div 2) + 1, hi))

\* crc16 run over a given content of the table: crc = 0x0000, the loop, return crc.
Crc16Over(table, text) ==
    Bind(table, LAMBDA tb : Bind(text, LAMBDA t : Crc16Loop(tb, 0, t, 1, Len(t))))

\* TelegramParser.crc16(telegram)
crc16(text) == Crc16Over(crc16_table, text)

-----------------------------------------------------------------------------
(* Python string operations used by the parser *)

\* The least element of a non-empty set of integers.
Least(S) == CHOOSE k \in S : \A j \in S : k <= j

\* s.rstrip(chars): drop the trailing characters that are in chars.
RStripChars(s, chars) ==
    Bind(s, LAMBDA t :
        LET last == {k \in 1..Len(t) : t[k] \notin chars /\ \A j \in (k + 1)..Len(t) : t[j] \in chars}
        IN  IF last = {} THEN <<>> ELSE SubSeq(t, 1, Least(last)))

\* s.lstrip(chars)
LStripChars(s, chars) ==
    Bind(s, LAMBDA t :
        LET first == {k \in 1..Len(t) : t[k] \notin chars /\ \A j \in 1..(k - 1) : t[j] \in chars}
        IN  IF first = {} THEN <<>> ELSE SubSeq(t, Least(first), Len(t)))

\* The ASCII characters for which str.isspace holds.
Whitespace == {9, 10, 11, 12, 13, 28, 29, 30, 31, 32}

\* s.rstrip() and s.strip()
RStrip(s) == RStripChars(s, Whitespace)
Strip(s) == LStripChars(RStripChars(s, Whitespace), Whitespace)

\* s.index(ch) + 1 as a position 1..Len(s); 0 where s.index raises ValueError.
IndexOf(s, ch) ==
    Bind(s, LAMBDA t :
        LET at == {k \in 1..Len(t) : t[k] = ch /\ \A j \in 1..(k - 1) : t[j] # ch}
        IN  IF at = {} THEN 0 ELSE Least(at))

\* The position of the first "\r\n" in s, 0 if there is none.
FindCRLF(s) ==
    Bind(s, LAMBDA t :
        Bind({k \in 1..(Len(t) - 1) : t[k] = 13 /\ t[k + 1] = 10},
             LAMBDA at : IF at = {} THEN 0 ELSE Least(at)))

\* int(s, base=16): [ok |-> FALSE] where int raises ValueError.  Surrounding
\* whitespace, a sign, a 0x/0X prefix and single underscores between digits
\* are accepted, as Python does.
IntBase16(s) ==
    Bind(Strip(s), LAMBDA t :
    LET signed   == t # <<>> /\ t[1] \in {43, 45}
        u        == IF signed THEN SubSeq(t, 2, Len(t)) ELSE t
        prefixed == Len(u) >= 2 /\ u[1] = 48 /\ u[2] \in {120, 88}
        b        == IF prefixed THEN SubSeq(u, 3, Len(u)) ELSE u
        wellFormed ==
            /\ b # <<>>
            /\ \A k \in 1..Len(b) : HexDigitVal(b[k]) >= 0 \/ b[k] = 95
            /\ b[Len(b)] # 95
            /\ prefixed \/ b[1] # 95
            /\ \A k \in 1..(Len(b) - 1) : ~(b[k] = 95 /\ b[k + 1] = 95)
        digits   == SelectSeq(b, LAMBDA ch : ch # 95)
    IN  IF ~wellFormed THEN [ok |-> FALSE, val |-> 0]
        ELSE [ok |-> TRUE,
              val |-> IF signed /\ t[1] = 45 THEN 0 - HexValue(digits) ELSE HexValue(digits)])

-----------------------------------------------------------------------------
(* Telegram and TelegramParser.parse *)

NoneValue == [kind |-> "None"]
ValueError == [kind |-> "ValueError"]

\* Telegram(raw): header and data, or ValueError when raw holds no "\r\n"
\* (the two-name unpacking of raw.split('\r\n', 1) fails).
NewTelegram(raw) ==
    Bind(raw, LAMBDA r : Bind(FindCRLF(r), LAMBDA k :
        IF k = 0 THEN ValueError
        ELSE [kind   |-> "Telegram",
              header |-> SubSeq(r, 1, k - 1),
              data   |-> LStripChars(SubSeq(r, k + 2, Len(r)), {13, 10})]))

\* parse without the comparison of the two checksums.
ParseOver_NoCompare(table, raw) ==
    Bind(raw, LAMBDA r : Bind(IndexOf(r, 33), LAMBDA split :
        IF split = 0 THEN ValueError
        ELSE Bind(RStrip(SubSeq(r, split + 1, Len(r))), LAMBDA crc :
                IF crc # <<>> /\ ~IntBase16(crc).ok THEN ValueError
                ELSE NewTelegram(SubSeq(r, 1, split)))))

\* parse run over a given content of the table: a Telegram, None on a
\* checksum mismatch, or the ValueError raised by index, int or Telegram.
ParseOver(table, raw) ==
    Bind(raw, LAMBDA r : Bind(IndexOf(r, 33), LAMBDA split :
        IF split = 0 THEN ValueError
        ELSE Bind(SubSeq(r, 1, split), LAMBDA data :
             Bind(RStrip(SubSeq(r, split + 1, Len(r))), LAMBDA crc :
                IF crc # <<>>
                THEN Bind(IntBase16(crc), LAMBDA expected_crc :
                        IF ~expected_crc.ok THEN ValueError
                        ELSE IF Crc16Over(table, data) # expected_crc.val THEN NoneValue
                        ELSE NewTelegram(data))
                ELSE NewTelegram(data)))))

\* TelegramParser.parse(telegram)
parse(raw) == ParseOver(crc16_table, raw)

-----------------------------------------------------------------------------
(* OBIS_ID, Telegram.__getitem__ and CosemValue *)

\* The enumeration: each member's pattern is \d-\d: followed by the code
\* written here (its dots escaped in the pattern) and by .+?\r\n
OBIS_ID ==
    [ P1_MESSAGE_TIMESTAMP           |-> Text(<<"1",".","0",".","0">>),
      EQUIPMENT_IDENTIFIER           |-> Text(<<"9","6",".","1",".","1">>),
      ELECTRICITY_USAGE              |-> Text(<<"1",".","7",".","0">>),
      ELECTRICITY_DELIVERY           |-> Text(<<"2",".","7",".","0">>),
      ELECTRICITY_USED_TARIFF_1      |-> Text(<<"1",".","8",".","1">>),
      ELECTRICITY_USED_TARIFF_2      |-> Text(<<"1",".","8",".","2">>),
      ELECTRICITY_DELIVERED_TARIFF_1 |-> Text(<<"2",".","8",".","1">>),
      ELECTRICITY_DELIVERED_TARIFF_2 |-> Text(<<"2",".","8",".","2">>),
      VOLTAGE_L1                     |-> Text(<<"3","2",".","7",".","0">>),
      VOLTAGE_L2                     |-> Text(<<"5","2",".","7",".","0">>),
      VOLTAGE_L3                     |-> Text(<<"7","2",".","7",".","0">>),
      CURRENT_L1                     |-> Text(<<"3","1",".","7",".","0">>),
      CURRENT_L2                     |-> Text(<<"5","1",".","7",".","0">>),
      CURRENT_L3                     |-> Text(<<"7","1",".","7",".","0">>),
      ACTIVE_POWER_L1_POSITIVE       |-> Text(<<"2","1",".","7",".","0">>),
      ACTIVE_POWER_L2_POSITIVE       |-> Text(<<"4","1",".","7",".","0">>),
      ACTIVE_POWER_L3_POSITIVE       |-> Text(<<"6","1",".","7",".","0">>),
      ACTIVE_POWER_L1_NEGATIVE       |-> Text(<<"2","2",".","7",".","0">>),
      ACTIVE_POWER_L2_NEGATIVE       |-> Text(<<"4","2",".","7",".","0">>),
      ACTIVE_POWER_L3_NEGATIVE       |-> Text(<<"6","2",".","7",".","0">>) ]

IsDigit(ch) == ch >= 48 /\ ch <= 57

\* Where a match of the pattern that starts at p ends (the position of its
\* "\n"), 0 if the pattern does not match at p.  After the code, .+? takes
\* one or more characters other than "\n", as few as possible, up to "\r\n".
MatchEnd(code, data, p) ==
    LET rest == p + 4 + Len(code)      \* the first character taken by .+?
    IN  IF /\ rest <= Len(data)
           /\ IsDigit(data[p]) /\ data[p + 1] = 45 /\ IsDigit(data[p + 2]) /\ data[p + 3] = 58
           /\ SubSeq(data, p + 4, rest - 1) = code
        THEN LET ends == {q \in (rest + 1)..(Len(data) - 1) :
                            /\ data[q] = 13 /\ data[q + 1] = 10
                            /\ \A j \in rest..(q - 1) : data[j] # 10}
             IN  IF ends = {} THEN 0 ELSE Least(ends) + 1
        ELSE 0

\* re.search(pattern, data): the leftmost match as <<first, last>>, <<>> for None.
ReSearch(code, data) ==
    Bind(code, LAMBDA c : Bind(data, LAMBDA d :
        Bind({p \in 1..Len(d) : MatchEnd(c, d, p) # 0}, LAMBDA starts :
            IF starts = {} THEN <<>>
            ELSE <<Least(starts), MatchEnd(c, d, Least(starts))>>)))

\* A well-formed digit part of a float literal: digits, single underscores
\* between them.
DigitPart(s) ==
    /\ s # <<>>
    /\ \A k \in 1..Len(s) : IsDigit(s[k]) \/ s[k] = 95
    /\ IsDigit(s[1]) /\ IsDigit(s[Len(s)])
    /\ \A k \in 1..(Len(s) - 1) : ~(s[k] = 95 /\ s[k + 1] = 95)

\* float(s): whether it succeeds ("ok") and whether the value is zero.
\* Accepted, as by Python: surrounding whitespace, a sign, then inf, infinity
\* or nan in any case, or digits with an optional fraction and exponent.
\* (A literal whose exponent alone makes the value 0.0 counts as non-zero.)
PyFloat(s) ==
    Bind(Strip(s), LAMBDA t :
    LET signed == t # <<>> /\ t[1] \in {43, 45}
        u      == IF signed THEN SubSeq(t, 2, Len(t)) ELSE t
        low    == [k \in 1..Len(u) |-> IF u[k] >= 65 /\ u[k] <= 90 THEN u[k] + 32 ELSE u[k]]
        word   == low \in { Text(<<"i","n","f">>), Text(<<"n","a","n">>),
                            Text(<<"i","n","f","i","n","i","t","y">>) }
        e      == IndexOf(low, 101)
        mant   == IF e = 0 THEN u ELSE SubSeq(u, 1, e - 1)
        expo   == IF e = 0 THEN <<>> ELSE SubSeq(u, e + 1, Len(u))
        expoD  == IF expo # <<>> /\ expo[1] \in {43, 45} THEN SubSeq(expo, 2, Len(expo)) ELSE expo
        dot    == IndexOf(mant, 46)
        whole  == IF dot = 0 THEN mant ELSE SubSeq(mant, 1, dot - 1)
        frac   == IF dot = 0 THEN <<>> ELSE SubSeq(mant, dot + 1, Len(mant))
        mantOK == /\ whole # <<>> \/ frac # <<>>
                  /\ whole = <<>> \/ DigitPart(whole)
                  /\ frac = <<>> \/ DigitPart(frac)
        expoOK == e = 0 \/ DigitPart(expoD)
    IN  IF word THEN [ok |-> TRUE, zero |-> FALSE]
        ELSE IF mantOK /\ expoOK
        THEN [ok |-> TRUE, zero |-> \A k \in 1..Len(mant) : mant[k] \in {48, 46, 95}]
        ELSE [ok |-> FALSE, zero |-> FALSE])

\* CosemValue(name, line): the object's fields, or IndexError when the line
\* holds no "(".  isFloat tells whether value is a float or the text data.
CosemValue(name, line) ==
    Bind(line, LAMBDA l : Bind(IndexOf(l, 40), LAMBDA paren :
        IF paren = 0 THEN [kind |-> "IndexError"]
        ELSE Bind(RStripChars(SubSeq(l, paren + 1, Len(l)), {41}), LAMBDA data :
             Bind({k \in 1..Len(data) : data[k] = 42}, LAMBDA stars :
                LET star  == Least(stars)
                    value == SubSeq(data, 1, star - 1)
                IN  IF Cardinality(stars) # 1
                    THEN [kind |-> "CosemValue", name |-> name, isFloat |-> FALSE,
                          zero |-> FALSE, value |-> data, hasUnit |-> FALSE, unit |-> <<>>]
                    ELSE Bind(PyFloat(value), LAMBDA f :
                        IF f.ok
                        THEN [kind |-> "CosemValue", name |-> name, isFloat |-> TRUE,
                              zero |-> f.zero, value |-> Strip(value), hasUnit |-> TRUE,
                              unit |-> SubSeq(data, star + 1, Len(data))]
                        ELSE [kind |-> "CosemValue", name |-> name, isFloat |-> FALSE,
                              zero |-> FALSE, value |-> data, hasUnit |-> FALSE,
                              unit |-> <<>>])))))

\* Telegram.__getitem__(id): None when the pattern is not found.
GetItem(self, id) ==
    Bind(self.data, LAMBDA data : Bind(ReSearch(OBIS_ID[id], data), LAMBDA match :
        IF match = <<>> THEN NoneValue
        ELSE CosemValue(id, Strip(SubSeq(data, match[1], match[2])))))

-----------------------------------------------------------------------------
(* The values the variable groups hold while another part is exercised *)

NumParsers == 2
Parsers == 1..NumParsers

\* TelegramParser constructed once, nothing running.
TableBuilt ==
    /\ crc16_table = BuiltTable
    /\ tpc = [p \in Parsers |-> "done"]
    /\ ti = [p \in Parsers |-> 0]
    /\ gil = 0
    /\ preempts = 0

CrcIdle == crcInput = <<>> /\ crcOut = -1

CtorIdle ==
    /\ cpc = "constructed" /\ cargs = <<>> /\ cself = <<>>
    /\ cosemLine = <<>> /\ cosemOut = [kind |-> "pending"]
    /\ parseInput = <<>> /\ parseOut = [kind |-> "pending"]

BridgeIdle ==
    /\ pc = "unregister"
    /\ portExists = FALSE
    /\ service = [registered |-> FALSE, serial |-> <<>>]
    /\ telegram = NoneValue
    /\ event = "none"
    /\ lastRead = [kind |-> "none", loop |-> "none"]
    /\ prevRead = [kind |-> "none", loop |-> "none"]
    /\ lastRaw = <<>>
    /\ announces = 0
    /\ polled = FALSE
    /\ readings = <<>>
    /\ waitNotes = 0
    /\ observed = FALSE
    /\ waits = {}
    /\ handles = 0
    /\ inflight = 0
    /\ rpc = "none"
    /\ routcome = [kind |-> "none", text |-> 0]

FramerIdle ==
    /\ fpc = "returned"
    /\ inbuf = <<>>
    /\ wire = <<>>
    /\ ftelegram = NoneValue
    /\ fresult = <<>>
    /\ inbuf0 = <<>>
    /\ arrived = FALSE
    /\ expired = FALSE

-----------------------------------------------------------------------------
(* crc16 applied to bounded inputs *)

MaxCrcLen == 3
CrcBytes == {0, 1, 33, 47, 128, 255}

RECURSIVE SeqsUpTo(_, _)
SeqsUpTo(S, n) ==
    IF n = 0 THEN {<<>>}
    ELSE LET shorter == SeqsUpTo(S, n - 1)
         IN  shorter \cup {Append(q, x) : q \in {r \in shorter : Len(r) = n - 1}, x \in S}

CrcInit ==
    /\ TableBuilt
    /\ CtorIdle
    /\ BridgeIdle
    /\ FramerIdle
    /\ crcInput \in SeqsUpTo(CrcBytes, MaxCrcLen)
    /\ crcOut = -1

CallCrc16 ==
    /\ crcOut = -1
    /\ crcOut' = crc16(crcInput)
    /\ UNCHANGED <<crcInput, tableVars, ctorVars, valueVars, bridgeVars, framerVars>>

CrcNext == CallCrc16

SpecCrc == CrcInit /\ [][CrcNext]_vars


\* The bit-by-bit CRC16 with reflected polynomial 0xA001 and initial value 0.
RefRound(crc) == Bind(crc, LAMBDA c : IF c % 2 = 1 THEN Xor(c \div 2, 40961) ELSE c \div 2)

RefByte(crc, b) ==
    RefRound(RefRound(RefRound(RefRound(RefRound(RefRound(RefRound(RefRound(Xor(crc, b)))))))))

RECURSIVE RefCrcLoop(_, _, _, _)
RefCrcLoop(crc, bytes, lo, hi) ==
    IF lo > hi THEN crc
    ELSE IF lo = hi THEN RefByte(crc, bytes[lo])
    ELSE Bind(RefCrcLoop(crc, bytes, lo, (lo + hi) \div 2),
              LAMBDA left : RefCrcLoop(left, bytes, ((lo + hi) \div 2) + 1, hi))

RefCrc16(bytes) == Bind(bytes, LAMBDA t : RefCrcLoop(0, t, 1, Len(t)))

\* C9: for every byte sequence the table-driven crc16 returns the value of the
\* bit-by-bit reference CRC16 (polynomial 0xA001, initial value 0), and the
\* value lies in 0..65535; every single byte value 0..255 is covered as well.
C9_Crc16MatchesReference ==
    /\ crcOut # -1 =>
        /\ crcOut = RefCrc16(crcInput)
        /\ crcOut \in 0..65535
    /\ crcOut # -1 /\ Len(crcInput) = 1 =>
        \A b \in 0..255 : crc16(<<b>>) = RefCrc16(<<b>>)

\* A checksum of a text of two or more bytes has been computed and uses the
\* high byte of the running value.
C9_Witness == crcOut > 255 /\ Len(crcInput) >= 2 /\ crcInput[1] > 127


-----------------------------------------------------------------------------
(* CosemValue applied to bounded lines *)

MaxPayload == 3

\* The characters payloads are made of: 1 . * V x
PayloadChars == {49, 46, 42, 86, 120}

\* The data line of VOLTAGE_L1 with a given payload, as __getitem__ hands it
\* to CosemValue (stripped).
PayloadLine(payload) ==
    Text(<<"1","-","0",":">>) \o OBIS_ID.VOLTAGE_L1 \o <<40>> \o payload \o <<41>>

CosemInit ==
    /\ TableBuilt
    /\ CrcIdle
    /\ BridgeIdle
    /\ FramerIdle
    /\ cpc = "constructed" /\ cargs = <<>> /\ cself = <<>>
    /\ parseInput = <<>> /\ parseOut = [kind |-> "pending"]
    /\ cosemLine \in {PayloadLine(p) : p \in SeqsUpTo(PayloadChars, MaxPayload)}
    /\ cosemOut = [kind |-> "pending"]

\* CosemValue(id, line)
NewCosemValue ==
    /\ cosemOut.kind = "pending"
    /\ cosemOut' = CosemValue("VOLTAGE_L1", cosemLine)
    /\ UNCHANGED <<cosemLine, parseInput, parseOut, cpc, cargs, cself, tableVars, crcVars,
                   bridgeVars, framerVars>>

CosemNext == NewCosemValue

SpecCosem == CosemInit /\ [][CosemNext]_vars

\* The payload of cosemLine, and a decimal number over PayloadChars: digits
\* with at most one point.
PayloadOf(line) == SubSeq(line, IndexOf(line, 40) + 1, Len(line) - 1)
StarsIn(p) == {k \in 1..Len(p) : p[k] = 42}
IsDecimal(m) ==
    /\ \A k \in 1..Len(m) : m[k] \in {49, 46}
    /\ \E k \in 1..Len(m) : m[k] = 49
    /\ Cardinality({k \in 1..Len(m) : m[k] = 46}) <= 1

\* C13: a payload that contains the separator "*" but whose magnitude does
\* not decode as a number is reported as a MalformedValue error for the
\* field and is not returned as a value.
C13_MalformedMagnitudeIsError ==
    LET p == PayloadOf(cosemLine)
    IN  (/\ cosemOut.kind # "pending"
         /\ Cardinality(StarsIn(p)) = 1
         /\ ~IsDecimal(SubSeq(p, 1, Least(StarsIn(p)) - 1)))
            => cosemOut.kind = "MalformedValue"

-----------------------------------------------------------------------------
(* TelegramParser.__init__ run by several constructions.  The interpreter   *)
(* runs one construction at a time and may switch between them before the  *)
(* emptiness test and before every append.                                  *)

MaxPreempt == 2

TableInit ==
    /\ crc16_table = <<>>
    /\ tpc = [p \in Parsers |-> "new"]
    /\ ti = [p \in Parsers |-> 0]
    /\ gil = 0
    /\ preempts = 0
    /\ CrcIdle
    /\ CtorIdle
    /\ BridgeIdle
    /\ FramerIdle

\* Construction p gets to run: a switch away from a construction that has
\* started and not finished is a preemption.
Schedule(p) ==
    LET preempting == gil \notin {0, p} /\ tpc[gil] = "fill"
    IN  /\ preempting => preempts < MaxPreempt
        /\ gil' = p
        /\ preempts' = IF preempting THEN preempts + 1 ELSE preempts

\* if not TelegramParser.crc16_table:
InitCheck(p) ==
    /\ tpc[p] = "new"
    /\ Schedule(p)
    /\ tpc' = [tpc EXCEPT ![p] = IF crc16_table = <<>> THEN "fill" ELSE "done"]
    /\ UNCHANGED <<crc16_table, ti, crcVars, ctorVars, valueVars, bridgeVars, framerVars>>

\* One iteration of for i in range(0, 256): the rounds and the append.
InitAppend(p) ==
    /\ tpc[p] = "fill"
    /\ Schedule(p)
    /\ crc16_table' = Append(crc16_table, TableEntry(ti[p]))
    /\ ti' = [ti EXCEPT ![p] = ti[p] + 1]
    /\ tpc' = [tpc EXCEPT ![p] = IF ti[p] + 1 = TableSize THEN "done" ELSE "fill"]
    /\ UNCHANGED <<crcVars, ctorVars, valueVars, bridgeVars, framerVars>>

TableNext == \E p \in Parsers : InitCheck(p) \/ InitAppend(p)

SpecTable == TableInit /\ [][TableNext]_vars

\* C8: the checksum table is written once: whenever no construction is in
\* progress and at least one has finished, the shared table holds exactly 256
\* entries, entry i being the 8-round shift/XOR-0xA001 value of i, for every
\* interleaving of the constructions.
C8_TableWrittenOnce ==
    (/\ \E p \in Parsers : tpc[p] = "done"
     /\ \A p \in Parsers : tpc[p] # "fill")
        => /\ Len(crc16_table) = 256
           /\ \A i \in 0..255 : IntBase0(crc16_table[i + 1]) = Rounds(i, 8)

-----------------------------------------------------------------------------
(* SerialReader.__init__ *)

MaxByteSize == 12

Upper(s) == [k \in 1..Len(s) |-> IF s[k] >= 97 /\ s[k] <= 122 THEN s[k] - 32 ELSE s[k]]

\* The attributes of the serial module whose names start with PARITY_
\* (the parity constants of pyserial).
SerialParityAttrs ==
    { Text(<<"P","A","R","I","T","Y","_","N","O","N","E">>),
      Text(<<"P","A","R","I","T","Y","_","E","V","E","N">>),
      Text(<<"P","A","R","I","T","Y","_","O","D","D">>),
      Text(<<"P","A","R","I","T","Y","_","M","A","R","K">>),
      Text(<<"P","A","R","I","T","Y","_","S","P","A","C","E">>) }

\* (serial.SEVENBITS, serial.EIGHTBITS)
BitsTuple == <<7, 8>>

\* t[index] of a Python tuple: a negative index counts from the end, an index
\* outside -len..len-1 raises IndexError (reported as 0 here).
TupleIndex(t, index) ==
    IF index >= 0 /\ index < Len(t) THEN t[index + 1]
    ELSE IF index < 0 /\ index >= 0 - Len(t) THEN t[Len(t) + index + 1]
    ELSE 0

\* Parity arguments tried: names of the driver in several cases, the
\* default, and names the driver does not know.
ParityArgs ==
    { Text(<<"n","o","n","e">>), Text(<<"N","o","n","e">>), Text(<<"E","V","E","N">>),
      Text(<<"o","d","d">>), Text(<<"m","a","r","k">>), Text(<<"s","p","a","c","e">>),
      Text(<<"f","o","o">>), Text(<<"n">>), <<>> }

CtorInit ==
    /\ crc16_table = <<>>
    /\ tpc = [p \in Parsers |-> "done"]
    /\ ti = [p \in Parsers |-> 0]
    /\ gil = 0
    /\ preempts = 0
    /\ CrcIdle
    /\ BridgeIdle
    /\ FramerIdle
    /\ cosemLine = <<>> /\ cosemOut = [kind |-> "pending"]
    /\ parseInput = <<>> /\ parseOut = [kind |-> "pending"]
    /\ cpc = "new"
    /\ cargs \in [bytesize : 0..MaxByteSize, parity : ParityArgs]
    /\ cself = <<>>

\* SerialReader(port, bytesize=..., parity=...)
SerialReaderInit ==
    /\ cpc = "new"
    /\ LET attr  == Text(<<"P","A","R","I","T","Y","_">>) \o Upper(cargs.parity)
           bits  == TupleIndex(BitsTuple, cargs.bytesize - 7)
       IN  IF attr \notin SerialParityAttrs
           THEN /\ cpc' = "raised"
                /\ cself' = <<"AttributeError", "Invalid parity argument">>
                /\ UNCHANGED crc16_table
           ELSE IF bits = 0
           THEN /\ cpc' = "raised"
                /\ cself' = <<"AttributeError", "Invalid bytesize argument: Should be 7 or 8">>
                /\ UNCHANGED crc16_table
           ELSE /\ cpc' = "constructed"
                /\ cself' = <<attr, bits>>
                /\ crc16_table' = IF crc16_table = <<>> THEN BuiltTable ELSE crc16_table
    /\ UNCHANGED <<tpc, ti, gil, preempts, crcVars, cargs, valueVars, bridgeVars, framerVars>>

CtorNext == SerialReaderInit

SpecCtor == CtorInit /\ [][CtorNext]_vars

\* The parity names of the driver.
DriverParities ==
    { Text(<<"N","O","N","E">>), Text(<<"E","V","E","N">>), Text(<<"O","D","D">>),
      Text(<<"M","A","R","K">>), Text(<<"S","P","A","C","E">>) }

\* C7: construction fails with a configuration error for every byte size
\* other than 7 or 8 and every parity name outside the driver's set: a reader
\* is constructed only for byte size 7 or 8 and a parity name of the driver,
\* and every other argument pair is raised as an error.
C7_InvalidConfigurationRejected ==
    LET valid == cargs.bytesize \in {7, 8} /\ Upper(cargs.parity) \in DriverParities
    IN  /\ cpc = "constructed" => valid
        /\ cpc = "raised" => ~valid


-----------------------------------------------------------------------------
(* SerialReader._read_telegram *)

MaxTelegrams == 2

LF == 10

\* The telegram the meter sends as its n-th: "/n", a data line and "!n",
\* each line ended by "\r\n".
TinyTelegram(n) == <<47, 48 + n, 13, 10, 100, 13, 10, 33, 48 + n, 13, 10>>

\* The end of a telegram whose start was sent before the port was opened.
TelegramTail == <<100, 13, 10, 33, 48, 13, 10>>

RECURSIVE TelegramsFrom(_, _)
TelegramsFrom(n, last) ==
    IF n > last THEN <<>> ELSE TinyTelegram(n) \o TelegramsFrom(n + 1, last)

\* What the meter sends from the moment the port is opened.
Streams ==
    {lead \o TelegramsFrom(1, n) : lead \in {<<>>, TelegramTail}, n \in 0..MaxTelegrams}

\* A bytes object, as opposed to None.
Bytes(b) == [kind |-> "bytes", value |-> b]

\* line.startswith(ch)
StartsWith(line, ch) == line # <<>> /\ line[1] = ch

\* ser.in_waiting when buf is what the input buffer holds.
in_waiting_Zero(buf) == 0

in_waiting(buf) == Len(buf)

\* The port has been opened and the loop is about to start, with some of
\* the stream already in the input buffer.
FramerInit ==
    /\ TableBuilt
    /\ CrcIdle
    /\ CtorIdle
    /\ BridgeIdle
    /\ \E stream \in Streams : \E k \in 0..Len(stream) :
        /\ inbuf = SubSeq(stream, 1, k)
        /\ wire = SubSeq(stream, k + 1, Len(stream))
    /\ inbuf0 = inbuf
    /\ fpc = "reading"
    /\ ftelegram = NoneValue
    /\ fresult = <<>>
    /\ arrived = FALSE
    /\ expired = FALSE

\* The next byte sent by the meter reaches the input buffer.
Arrive ==
    /\ fpc = "reading"
    /\ wire # <<>>
    /\ inbuf' = Append(inbuf, Head(wire))
    /\ wire' = Tail(wire)
    /\ arrived' = TRUE
    /\ UNCHANGED <<fpc, ftelegram, fresult, inbuf0, expired, tableVars, crcVars, ctorVars, valueVars,
                   bridgeVars>>

\* The body of the loop for the line that read_until returned, rest being
\* what the input buffer holds after it.
LoopBody(line, rest) ==
    IF line = <<>>
    THEN /\ fpc' = "raised"                       \* raise TimeoutError
         /\ UNCHANGED <<ftelegram, fresult>>
    ELSE IF ftelegram.kind = "None"
    THEN /\ ftelegram' = IF StartsWith(line, 47) THEN Bytes(line) ELSE ftelegram
         /\ UNCHANGED <<fpc, fresult>>
    ELSE IF ~StartsWith(line, 33)
    THEN /\ ftelegram' = Bytes(ftelegram.value \o line)
         /\ UNCHANGED <<fpc, fresult>>
    ELSE IF in_waiting(rest) # 0
    THEN /\ ftelegram' = NoneValue
         /\ UNCHANGED <<fpc, fresult>>
    ELSE /\ ftelegram' = Bytes(ftelegram.value \o line)
         /\ fpc' = "returned"
         /\ fresult' = ftelegram.value \o line

\* ser.read_until(b'\n') finds the terminator: the line up to and including
\* the first "\n" is taken from the input buffer.
ReadLine ==
    /\ fpc = "reading"
    /\ IndexOf(inbuf, LF) # 0
    /\ LET n == IndexOf(inbuf, LF)
       IN  /\ inbuf' = SubSeq(inbuf, n + 1, Len(inbuf))
           /\ LoopBody(SubSeq(inbuf, 1, n), SubSeq(inbuf, n + 1, Len(inbuf)))
    /\ UNCHANGED <<wire, inbuf0, arrived, expired, tableVars, crcVars, ctorVars, valueVars, bridgeVars>>

\* ser.read_until(b'\n') runs into the timeout of the port (3 seconds) before
\* a terminator arrives: it returns the bytes read so far, which may be none.
ReadExpire ==
    /\ fpc = "reading"
    /\ IndexOf(inbuf, LF) = 0
    /\ inbuf' = <<>>
    /\ expired' = TRUE
    /\ LoopBody(inbuf, <<>>)
    /\ UNCHANGED <<wire, inbuf0, arrived, tableVars, crcVars, ctorVars, valueVars, bridgeVars>>

FramerNext == Arrive \/ ReadLine \/ ReadExpire

SpecFramer == FramerInit /\ [][FramerNext]_vars

\* C17: whenever _read_telegram returns, the returned buffer is the in-order
\* concatenation of consecutive input lines from a line that starts with "/"
\* to the first later line that starts with "!" (of the lines the meter sends
\* here: one whole telegram), with no line read before the start line, and
\* the input buffer held nothing when the end line was read.
C17_ReturnsConsecutiveLines ==
    fpc = "returned" =>
        /\ \E k \in 1..MaxTelegrams : fresult = TinyTelegram(k)
        /\ inbuf = <<>>

\* The same call with a meter that never stops sending: whenever all it has
\* sent is received it sends its next telegram.  The input buffer of the
\* port holds MaxBuffer bytes; a byte arrives only while there is room.
MaxBuffer == 12

MeterSends ==
    /\ fpc = "reading"
    /\ wire = <<>>
    /\ \E n \in 1..MaxTelegrams : wire' = TinyTelegram(n)
    /\ UNCHANGED <<fpc, inbuf, ftelegram, fresult, inbuf0, arrived, expired, tableVars, crcVars,
                   ctorVars, valueVars, bridgeVars>>

ArriveLive == Len(inbuf) < MaxBuffer /\ Arrive

FramerLiveNext == MeterSends \/ ArriveLive \/ ReadLine \/ ReadExpire

\* read_until always comes back, with a line or at the timeout of the port.
SpecFramerLive ==
    /\ FramerInit
    /\ [][FramerLiveNext]_vars
    /\ WF_vars(ReadLine)
    /\ WF_vars(ReadExpire)

\* C16: every call of _read_telegram eventually terminates, by returning a
\* telegram or by raising TimeoutError, also when bytes of a newer telegram
\* are waiting each time an end marker is read.
C16_ReadTelegramTerminates == <>(fpc # "reading")

\* C5: newest-wins framing: when exactly two complete telegrams are in the
\* input buffer at the start of the call and nothing arrives during it, the
\* call does not time out, is over as soon as the buffer is used up, and
\* returns exactly the second telegram.
C5_NewestWins ==
    (inbuf0 = TinyTelegram(1) \o TinyTelegram(2) /\ ~arrived) =>
        /\ fpc # "raised"
        /\ inbuf = <<>> => fpc = "returned"
        /\ fpc = "returned" => fresult = TinyTelegram(2)

\* Two telegrams were buffered and the call has returned the second.
C5_Witness ==
    /\ inbuf0 = TinyTelegram(1) \o TinyTelegram(2)
    /\ ~arrived
    /\ fpc = "returned"
    /\ fresult = TinyTelegram(2)
    /\ fresult # TinyTelegram(1)

\* C10: a call in which a wait for a line expired ends in the read timeout
\* (TimeoutError) and returns no telegram: nothing accumulated is delivered.
C10_ExpiredWaitIsReadTimeout ==
    (expired /\ fpc # "reading") => (fpc = "raised" /\ fresult = <<>>)

-----------------------------------------------------------------------------
(* P1DbusBridge: register_dbus, unregister_dbus, update_dbus *)

\* self.service after unregister_dbus
Unregistered == [registered |-> FALSE, serial |-> <<>>]

\* What reading .value of telegram[id] does: "ok", or the exception raised
\* (None has no attribute value; CosemValue may raise IndexError).
ValueOf(tg, id) ==
    Bind(GetItem(tg, id), LAMBDA v :
        IF v.kind = "None" THEN "AttributeError"
        ELSE IF v.kind = "IndexError" THEN "IndexError"
        ELSE "ok")

\* Arithmetic on the values of ids (+, -, round): TypeError unless all are floats.
Arith(tg, ids) ==
    IF \A id \in ids : Bind(GetItem(tg, id), LAMBDA v : v.kind = "CosemValue" => v.isFloat)
    THEN "ok" ELSE "TypeError"

\* power_watt / voltage
Divide(tg, voltage) ==
    Bind(GetItem(tg, voltage), LAMBDA v :
        IF v.kind = "CosemValue" /\ v.isFloat /\ v.zero THEN "ZeroDivisionError" ELSE "ok")

\* The first entry of steps that is not "ok", "ok" if there is none.
FirstFailure(steps) ==
    Bind(steps, LAMBDA st :
        Bind({k \in 1..Len(st) : st[k] # "ok"}, LAMBDA failed :
            IF failed = {} THEN "ok" ELSE st[Least(failed)]))

\* The statements of one phase of update_dbus, in order.
PhaseSteps(tg, voltage, pos, neg) ==
    << ValueOf(tg, voltage), ValueOf(tg, pos), ValueOf(tg, neg),
       Arith(tg, {pos, neg}), Arith(tg, {voltage}), Divide(tg, voltage) >>

\* update_dbus(telegram): "ok" when it runs to its end, else the exception
\* that leaves it.
update_dbus(tg) ==
    FirstFailure(
        << ValueOf(tg, "ELECTRICITY_USED_TARIFF_1"), ValueOf(tg, "ELECTRICITY_USED_TARIFF_2"),
           Arith(tg, {"ELECTRICITY_USED_TARIFF_1", "ELECTRICITY_USED_TARIFF_2"}),
           ValueOf(tg, "ELECTRICITY_DELIVERED_TARIFF_1"), ValueOf(tg, "ELECTRICITY_DELIVERED_TARIFF_2"),
           Arith(tg, {"ELECTRICITY_DELIVERED_TARIFF_1", "ELECTRICITY_DELIVERED_TARIFF_2"}) >>
        \o PhaseSteps(tg, "VOLTAGE_L1", "ACTIVE_POWER_L1_POSITIVE", "ACTIVE_POWER_L1_NEGATIVE")
        \o PhaseSteps(tg, "VOLTAGE_L2", "ACTIVE_POWER_L2_POSITIVE", "ACTIVE_POWER_L2_NEGATIVE")
        \o PhaseSteps(tg, "VOLTAGE_L3", "ACTIVE_POWER_L3_POSITIVE", "ACTIVE_POWER_L3_NEGATIVE"))

\* register_dbus(name, telegram): the service registered with the serial
\* number of the telegram, or the exception raised by reading it.  The bus
\* itself is taken to accept the registration.
register_dbus(tg) ==
    Bind(GetItem(tg, "EQUIPMENT_IDENTIFIER"), LAMBDA v :
        IF v.kind = "None" THEN [raised |-> "AttributeError", service |-> Unregistered]
        ELSE IF v.kind = "IndexError" THEN [raised |-> "IndexError", service |-> Unregistered]
        ELSE [raised |-> "ok", service |-> [registered |-> TRUE, serial |-> v.value]])

-----------------------------------------------------------------------------
(* The telegrams the meter sends in the runs explored *)

CRLF == <<13, 10>>

\* <m>-<n>:<code>(<payload>) and the line terminator
ObisLine(code, payload) ==
    Text(<<"1","-","0",":">>) \o code \o <<40>> \o payload \o <<41>> \o CRLF

Volts(v) == v \o Text(<<"*","V">>)
KiloWatt(v) == v \o Text(<<"*","k","W">>)

Measurements(volt1) ==
       ObisLine(OBIS_ID.ELECTRICITY_USED_TARIFF_1, KiloWatt(Text(<<"1",".","5">>)))
    \o ObisLine(OBIS_ID.ELECTRICITY_USED_TARIFF_2, KiloWatt(Text(<<"2">>)))
    \o ObisLine(OBIS_ID.ELECTRICITY_DELIVERED_TARIFF_1, KiloWatt(Text(<<"0">>)))
    \o ObisLine(OBIS_ID.ELECTRICITY_DELIVERED_TARIFF_2, KiloWatt(Text(<<"0">>)))
    \o ObisLine(OBIS_ID.VOLTAGE_L1, Volts(volt1))
    \o ObisLine(OBIS_ID.VOLTAGE_L2, Volts(Text(<<"2","3","1">>)))
    \o ObisLine(OBIS_ID.VOLTAGE_L3, Volts(Text(<<"2","2","9">>)))
    \o ObisLine(OBIS_ID.ACTIVE_POWER_L1_POSITIVE, KiloWatt(Text(<<"0",".","2">>)))
    \o ObisLine(OBIS_ID.ACTIVE_POWER_L2_POSITIVE, KiloWatt(Text(<<"0">>)))
    \o ObisLine(OBIS_ID.ACTIVE_POWER_L3_POSITIVE, KiloWatt(Text(<<"0">>)))
    \o ObisLine(OBIS_ID.ACTIVE_POWER_L1_NEGATIVE, KiloWatt(Text(<<"0">>)))
    \o ObisLine(OBIS_ID.ACTIVE_POWER_L2_NEGATIVE, KiloWatt(Text(<<"0",".","1">>)))
    \o ObisLine(OBIS_ID.ACTIVE_POWER_L3_NEGATIVE, KiloWatt(Text(<<"0">>)))

Header == Text(<<"/","X","5">>) \o CRLF \o CRLF

Identity(serial) == ObisLine(OBIS_ID.EQUIPMENT_IDENTIFIER, serial)

\* The checksum the meter appends: four upper-case hexadecimal digits.
UpperHexChar(d) == IF d < 10 THEN 48 + d ELSE 55 + d
Hex4(n) ==
    << UpperHexChar(n \div 4096), UpperHexChar((n \div 256) % 16),
       UpperHexChar((n \div 16) % 16), UpperHexChar(n % 16) >>

Checksummed(body) == body \o Hex4(RefCrc16(body)) \o CRLF
Corrupted(body) == body \o Hex4((RefCrc16(body) + 1) % 65536) \o CRLF

BodyA == Header \o Identity(Text(<<"A","1">>)) \o Measurements(Text(<<"2","3","0",".","1">>)) \o <<33>>
BodyB == Header \o Identity(Text(<<"B","2">>)) \o Measurements(Text(<<"2","3","0">>)) \o <<33>>
BodyIdentityOnly == Header \o Identity(Text(<<"A","1">>)) \o <<33>>
BodyNoIdentity == Header \o ObisLine(OBIS_ID.VOLTAGE_L1, Volts(Text(<<"2","3","0">>))) \o <<33>>
BodyZeroVolt == Header \o Identity(Text(<<"A","1">>)) \o Measurements(Text(<<"0",".","0">>)) \o <<33>>

FrameA == Checksummed(BodyA)                    \* complete, checksum right
FrameB == BodyB \o CRLF                         \* complete, no checksum text
FrameCorrupt == Corrupted(BodyA)                \* checksum wrong
FrameIdentityOnly == Checksummed(BodyIdentityOnly)
FrameNoIdentity == Checksummed(BodyNoIdentity)
FrameNoise == BodyIdentityOnly \o Text(<<"z","z">>) \o CRLF   \* no hexadecimal text
FrameZeroVolt == Checksummed(BodyZeroVolt)      \* a phase at 0.0 V

\* The texts the meter sends in the runs explored.
MeterTexts ==
    <<FrameA, FrameB, FrameCorrupt, FrameIdentityOnly, FrameNoIdentity, FrameNoise, FrameZeroVolt>>

-----------------------------------------------------------------------------
(* SerialReader.read as seen by run: what one async_read can end in *)

\* What the program makes of one text framed from the port: the result of
\* read (parse of the text) and, for a Telegram, what register_dbus and
\* update_dbus do with it.  All are functions of the text alone.
Reading(raw) ==
    Bind(raw, LAMBDA r : Bind(parse(r), LAMBDA t :
        [raw        |-> r,
         result     |-> t,
         registered |-> IF t.kind = "Telegram" THEN register_dbus(t)
                        ELSE [raised |-> "ok", service |-> Unregistered],
         updated    |-> IF t.kind = "Telegram" THEN update_dbus(t) ELSE "ok"]))

\* Opening a path that does not exist raises SerialException with errno
\* ENOENT.  On an existing path the read ends in another SerialException
\* (the device fails while it is read), in TimeoutError, or frames a text,
\* which parse turns into a Telegram, None or a ValueError.
ReadOutcomes ==
    IF ~portExists THEN {[kind |-> "ENOENT", text |-> 0]}
    ELSE {[kind |-> "SerialException", text |-> 0], [kind |-> "TimeoutError", text |-> 0]}
         \cup {[kind |-> "framed", text |-> i] : i \in DOMAIN readings}

\* The result of read for an outcome: the exception's name, or what parse returns.
ReadResult(o) == IF o.kind = "framed" THEN readings[o.text].result ELSE [kind |-> o.kind]

\* What update_dbus and register_dbus do with a telegram that read returned.
Updated(tg) == readings[CHOOSE i \in DOMAIN readings : readings[i].result = tg].updated
Registered(tg) == readings[CHOOSE i \in DOMAIN readings : readings[i].result = tg].registered

-----------------------------------------------------------------------------
(* P1DbusBridge.run *)

Init ==
    /\ TableBuilt
    /\ CrcIdle
    /\ CtorIdle
    /\ FramerIdle
    /\ readings = [i \in DOMAIN MeterTexts |-> Reading(MeterTexts[i])]
    /\ pc = "unregister"
    /\ portExists \in BOOLEAN
    /\ service = Unregistered
    /\ telegram = NoneValue
    /\ event = "none"
    /\ lastRead = [kind |-> "none", loop |-> "none"]
    /\ prevRead = [kind |-> "none", loop |-> "none"]
    /\ lastRaw = <<>>
    /\ announces = 0
    /\ polled = FALSE
    /\ waitNotes = 0
    /\ observed = FALSE
    /\ waits = {}
    /\ handles = 0
    /\ inflight = 0
    /\ rpc = "none"
    /\ routcome = [kind |-> "none", text |-> 0]

restVars == <<readings, tableVars, crcVars, ctorVars, valueVars, framerVars>>
otherVars == <<restVars, sessionVars>>

\* The device node appears or disappears (the cable is plugged or pulled).
PortAppears ==
    /\ ~portExists
    /\ portExists' = TRUE
    /\ waitNotes' = 0
    /\ UNCHANGED <<pc, service, telegram, event, lastRead, prevRead, lastRaw, announces, polled,
                   observed, waits, otherVars>>

PortVanishes ==
    /\ portExists
    /\ portExists' = FALSE
    /\ waitNotes' = 0
    /\ UNCHANGED <<pc, service, telegram, event, lastRead, prevRead, lastRaw, announces, polled,
                   observed, waits, otherVars>>

\* Top of the outer loop: await self.unregister_dbus(); telegram = None
Unregister ==
    /\ pc = "unregister"
    /\ service' = Unregistered
    /\ telegram' = NoneValue
    /\ pc' = "wait_port"
    /\ event' = "none"
    /\ announces' = 0
    /\ polled' = FALSE
    /\ UNCHANGED <<portExists, lastRead, prevRead, lastRaw, waitNotes, observed, waits, otherVars>>

\* wait_for_p1_port, its first test: return if the path exists, else print
\* the waiting message and enter the polling loop.
WaitPortCheck ==
    /\ pc = "wait_port"
    /\ polled' = TRUE
    /\ observed' = portExists
    /\ IF portExists
       THEN pc' = "read_acquire" /\ event' = "none" /\ UNCHANGED waitNotes
       ELSE pc' = "wait_poll" /\ event' = "PortWaiting" /\ waitNotes' = waitNotes + 1
    /\ UNCHANGED <<portExists, service, telegram, lastRead, prevRead, lastRaw, announces, waits,
                   otherVars>>

\* What one turn of the polling loop prints: nothing.
PollEvent_Repeats(exists) == IF exists THEN "none" ELSE "PortWaiting"

PollEvent(exists) == "none"

\* wait_for_p1_port, one turn of its loop: leave when the path exists, else
\* sleep one second and test again.
WaitPortPoll ==
    /\ pc = "wait_poll"
    /\ pc' = IF portExists THEN "read_acquire" ELSE "wait_poll"
    /\ observed' = portExists
    /\ waits' = IF portExists THEN waits ELSE waits \cup {"poll"}
    /\ event' = PollEvent(portExists)
    /\ waitNotes' = IF PollEvent(portExists) = "PortWaiting" THEN waitNotes + 1 ELSE waitNotes
    /\ UNCHANGED <<portExists, service, telegram, lastRead, prevRead, lastRaw, announces, polled,
                   otherVars>>

\* Where run continues after the read of the acquisition loop: ENOENT goes
\* to the debounce sleep, any other SerialException and TimeoutError are
\* swallowed and None repeats the loop (wait_for_p1_port again), a Telegram
\* leaves the loop, and a ValueError raised by parse leaves run.
AcquireNext_NoDebounce(kind) ==
    CASE kind = "Telegram" -> "register"
      [] kind = "ValueError" -> "terminated"
      [] OTHER -> "wait_port"

AcquireNext(kind) ==
    CASE kind = "Telegram" -> "register"
      [] kind = "ENOENT" -> "debounce"
      [] kind = "ValueError" -> "terminated"
      [] OTHER -> "wait_port"

\* What the acquisition loop prints for the outcome of its read.
AcquireEvent(kind) ==
    CASE kind = "ENOENT" -> "PortUnavailable"
      [] kind = "TimeoutError" -> "ReadTimedOut"
      [] kind = "ValueError" -> "raised"
      [] OTHER -> "none"

\* The read of the inner acquisition loop with its except clauses and the
\* loop test.
AcquireWith(o) ==
    LET r == ReadResult(o)
    IN  /\ lastRead' = [kind |-> r.kind, loop |-> "acquire"]
        /\ prevRead' = lastRead
        /\ lastRaw' = IF o.kind = "framed" THEN readings[o.text].raw ELSE lastRaw
        /\ telegram' = IF r.kind = "Telegram" THEN r ELSE telegram
        /\ pc' = AcquireNext(r.kind)
        /\ event' = AcquireEvent(r.kind)
        /\ waits' = IF r.kind = "TimeoutError" THEN {"read_timeout"} ELSE {}
        /\ observed' = FALSE
        /\ UNCHANGED <<portExists, service, announces, polled, waitNotes>>

AcquireRead ==
    /\ pc = "read_acquire"
    /\ \E o \in ReadOutcomes : AcquireWith(o)
    /\ UNCHANGED otherVars

\* await asyncio.sleep(5)  # Debounce
Debounce ==
    /\ pc = "debounce"
    /\ pc' = "wait_port"
    /\ event' = "none"
    /\ waits' = waits \cup {"debounce"}
    /\ UNCHANGED <<portExists, service, telegram, lastRead, prevRead, lastRaw, announces, polled,
                   waitNotes, observed, otherVars>>

\* await self.register_dbus(os.path.basename(self.port), telegram)
Register ==
    /\ pc = "register"
    /\ LET r == Registered(telegram)
       IN  /\ service' = r.service
           /\ pc' = IF r.raised = "ok" THEN "read_stream" ELSE "terminated"
           /\ event' = IF r.raised = "ok" THEN "DeviceAnnounced" ELSE "raised"
           /\ announces' = IF r.raised = "ok" THEN announces + 1 ELSE announces
    /\ UNCHANGED <<portExists, telegram, lastRead, prevRead, lastRaw, polled, waitNotes, observed,
                   waits, otherVars>>

\* Where run continues after one turn of the streaming loop: ENOENT and
\* TimeoutError break to the outer loop, any other SerialException is raised
\* again and leaves run, as do a ValueError of parse and an exception of
\* update_dbus (updated is what update_dbus did, "ok" where it was not called).
StreamNext_TimeoutRetries(kind, updated) ==
    CASE kind = "ENOENT" -> "unregister"
      [] kind \in {"SerialException", "ValueError"} -> "terminated"
      [] kind = "Telegram" /\ updated # "ok" -> "terminated"
      [] OTHER -> "read_stream"

StreamNext_RejectResets(kind, updated) ==
    CASE kind \in {"ENOENT", "TimeoutError", "None"} -> "unregister"
      [] kind \in {"SerialException", "ValueError"} -> "terminated"
      [] kind = "Telegram" /\ updated # "ok" -> "terminated"
      [] OTHER -> "read_stream"

StreamNext(kind, updated) ==
    CASE kind \in {"ENOENT", "TimeoutError"} -> "unregister"
      [] kind \in {"SerialException", "ValueError"} -> "terminated"
      [] kind = "Telegram" /\ updated # "ok" -> "terminated"
      [] OTHER -> "read_stream"

\* What one turn of the streaming loop signals: update_dbus is called for a
\* telegram, "Telegram is None!" is printed for None.
StreamEvent_Reannounce(kind) ==
    CASE kind = "Telegram" -> "DeviceAnnounced"
      [] kind = "None" -> "ChecksumRejected"
      [] kind \in {"SerialException", "ValueError"} -> "raised"
      [] OTHER -> "none"

StreamEvent(kind) ==
    CASE kind = "Telegram" -> "TelegramReceived"
      [] kind = "None" -> "ChecksumRejected"
      [] kind \in {"SerialException", "ValueError"} -> "raised"
      [] OTHER -> "none"

\* One turn of the streaming loop: the read, its except clauses, and
\* update_dbus for a telegram.
StreamWith(o) ==
    LET r == ReadResult(o)
        updated == IF r.kind = "Telegram" THEN Updated(r) ELSE "ok"
    IN  /\ lastRead' = [kind |-> r.kind, loop |-> "stream"]
        /\ prevRead' = lastRead
        /\ lastRaw' = IF o.kind = "framed" THEN readings[o.text].raw ELSE lastRaw
        /\ telegram' = IF r.kind \in {"Telegram", "None"} THEN r ELSE telegram
        /\ pc' = StreamNext(r.kind, updated)
        /\ event' = StreamEvent(r.kind)
        /\ waits' = IF r.kind = "TimeoutError" THEN {"read_timeout"} ELSE {}
        /\ observed' = FALSE
        /\ UNCHANGED <<portExists, service, announces, polled, waitNotes>>

StreamRead ==
    /\ pc = "read_stream"
    /\ \E o \in ReadOutcomes : StreamWith(o)
    /\ UNCHANGED otherVars

Next ==
    \/ PortAppears
    \/ PortVanishes
    \/ Unregister
    \/ WaitPortCheck
    \/ WaitPortPoll
    \/ AcquireRead
    \/ Debounce
    \/ Register
    \/ StreamRead

Spec == Init /\ [][Next]_vars

-----------------------------------------------------------------------------
(* run with the call of async_read in its steps: the call is handed to the
   executor, serial.Serial opens the port, the loop of _read_telegram ends,
   the with statement closes the port, and run gets the outcome. *)

runVars == <<pc, portExists, service, telegram, event, lastRead, prevRead, lastRaw, announces, polled,
             waitNotes, observed, waits>>

NoOutcome == [kind |-> "none", text |-> 0]

\* await self.p1.async_read(): loop.run_in_executor(None, self.read)
SubmitRead ==
    /\ pc \in {"read_acquire", "read_stream"}
    /\ rpc = "none"
    /\ rpc' = "submitted"
    /\ inflight' = inflight + 1
    /\ UNCHANGED <<handles, routcome, runVars, restVars>>

\* with serial.Serial(...) as ser: the port is opened, or the open raises
\* SerialException (errno ENOENT when the path does not exist).
OpenPort ==
    /\ rpc = "submitted"
    /\ \/ /\ portExists
          /\ handles' = handles + 1
          /\ rpc' = "reading"
          /\ UNCHANGED routcome
       \/ /\ rpc' = "finished"
          /\ routcome' = [kind |-> IF portExists THEN "SerialException" ELSE "ENOENT", text |-> 0]
          /\ UNCHANGED handles
    /\ UNCHANGED <<inflight, runVars, restVars>>

\* The loop of _read_telegram ends: a read raises SerialException, a wait
\* expires (TimeoutError), or a telegram is framed.
ReadEnds ==
    /\ rpc = "reading"
    /\ routcome' \in {[kind |-> "SerialException", text |-> 0], [kind |-> "TimeoutError", text |-> 0]}
                        \cup {[kind |-> "framed", text |-> i] : i \in DOMAIN readings}
    /\ rpc' = "exiting"
    /\ UNCHANGED <<handles, inflight, runVars, restVars>>

\* The number of open handles after the with statement is left.
Closed_Leaks(h) == h

Closed(h) == h - 1

\* The with statement is left, by break or by the exception: ser.close()
ClosePort ==
    /\ rpc = "exiting"
    /\ handles' = Closed(handles)
    /\ rpc' = "finished"
    /\ UNCHANGED <<inflight, routcome, runVars, restVars>>

\* The await in the acquisition loop gets what read returned or raised.
AcquireDeliver ==
    /\ pc = "read_acquire"
    /\ rpc = "finished"
    /\ AcquireWith(routcome)
    /\ rpc' = "none"
    /\ inflight' = inflight - 1
    /\ routcome' = NoOutcome
    /\ UNCHANGED <<handles, restVars>>

\* The same in the streaming loop.
StreamDeliver ==
    /\ pc = "read_stream"
    /\ rpc = "finished"
    /\ StreamWith(routcome)
    /\ rpc' = "none"
    /\ inflight' = inflight - 1
    /\ routcome' = NoOutcome
    /\ UNCHANGED <<handles, restVars>>

SessionNext ==
    \/ PortAppears
    \/ PortVanishes
    \/ Unregister
    \/ WaitPortCheck
    \/ WaitPortPoll
    \/ SubmitRead
    \/ OpenPort
    \/ ReadEnds
    \/ ClosePort
    \/ AcquireDeliver
    \/ Debounce
    \/ Register
    \/ StreamDeliver

SpecSession == Init /\ [][SessionNext]_vars

\* C18: during run at most one serial handle is open and at most one read
\* is in flight, and the handle is closed after every outcome of a read
\* (telegram, TimeoutError, SerialException) before the next open.
C18_OneHandleOneRead ==
    /\ handles \in {0, 1}
    /\ inflight \in {0, 1}
    /\ handles = 1 <=> rpc \in {"reading", "exiting"}
    /\ inflight = 1 <=> rpc # "none"
    /\ rpc # "none" => pc \in {"read_acquire", "read_stream"}

\* A third read has the port open after a telegram and then a timeout were
\* delivered, each with the port closed before.
C18_Witness ==
    /\ rpc = "reading"
    /\ handles = 1
    /\ inflight = 1
    /\ lastRead.kind = "TimeoutError"
    /\ prevRead.kind = "Telegram"

-----------------------------------------------------------------------------
(* TelegramParser.parse applied to framed telegrams *)

\* What _read_telegram can return: a line that starts with "/", lines ended
\* by "\r\n" or by "\n" alone, and a last line that starts with "!".  The
\* first "!" of the frame may lie in the identification line.
ParseHeaders == {Text(<<"/","X">>), Text(<<"/","X","!">>), Text(<<"/">>)}
LineEnds == {CRLF, <<10>>}
ParseBodies ==
    {h \o e \o (IF withData THEN <<100>> \o e ELSE <<>>) \o <<33>> :
        h \in ParseHeaders, e \in LineEnds, withData \in BOOLEAN}

\* The texts that follow the end marker: nothing (the wait expired), the
\* line end alone, the right checksum, a wrong one, a prefixed number and
\* text that is no hexadecimal number.
EndTexts(body) ==
    Bind(RefCrc16(body), LAMBDA crc :
        { <<>>,
          CRLF,
          Hex4(crc) \o CRLF,
          Hex4((crc + 1) % 65536) \o CRLF,
          Text(<<"0","x","1">>) \o CRLF,
          Text(<<"z","z">>) \o CRLF })

ParseFrames == UNION {{b \o t : t \in EndTexts(b)} : b \in ParseBodies}

ParseInit ==
    /\ TableBuilt
    /\ CrcIdle
    /\ BridgeIdle
    /\ FramerIdle
    /\ cpc = "constructed" /\ cargs = <<>> /\ cself = <<>>
    /\ cosemLine = <<>> /\ cosemOut = [kind |-> "pending"]
    /\ parseInput \in ParseFrames
    /\ parseOut = [kind |-> "pending"]

\* parser.parse(telegram)
CallParse ==
    /\ parseOut.kind = "pending"
    /\ parseOut' = parse(parseInput)
    /\ UNCHANGED <<parseInput, cosemLine, cosemOut, cpc, cargs, cself, tableVars, crcVars,
                   bridgeVars, framerVars>>

ParseNext == CallParse

SpecParse == ParseInit /\ [][ParseNext]_vars

\* C15: every call of parse on a framed telegram ends in a Telegram or in
\* the checksum-error outcome (None), whatever text follows the end marker
\* and wherever the first "!" of the frame lies; it ends in no other failure.
C15_ParseTelegramOrChecksumError ==
    parseOut.kind \in {"pending", "Telegram", "None"}

AcquiredTelegram == [kind |-> "Telegram", loop |-> "acquire"]
StreamedTelegram == [kind |-> "Telegram", loop |-> "stream"]
StreamedReject == [kind |-> "None", loop |-> "stream"]

\* C1: every entry into Streaming is preceded by exactly one DeviceAnnounced
\* (register_dbus), built from the first validated telegram of that
\* acquisition, and every validated telegram read while Streaming produces
\* TelegramReceived (update_dbus) and never another DeviceAnnounced.
C1_AnnouncedOncePerStreaming ==
    /\ announces <= 1
    /\ pc = "read_stream" => (announces = 1 /\ service.registered)
    /\ pc = "register" => (lastRead = AcquiredTelegram /\ telegram = parse(lastRaw))
    /\ event = "DeviceAnnounced" =>
        /\ pc = "read_stream"
        /\ lastRead = AcquiredTelegram
        /\ telegram = parse(lastRaw)
        /\ service = [registered |-> TRUE,
                      serial |-> GetItem(telegram, "EQUIPMENT_IDENTIFIER").value]
    /\ lastRead = StreamedTelegram =>
        (event = "TelegramReceived" /\ announces = 1 /\ service.registered)

\* A telegram was read while Streaming and signalled as TelegramReceived
\* after the single DeviceAnnounced of this acquisition.
C1_Witness ==
    /\ lastRead = StreamedTelegram
    /\ pc = "read_stream"
    /\ event = "TelegramReceived"
    /\ announces = 1

\* C2: run has no terminal state: whatever the last read ended in (validated
\* telegram, checksum failure, read timeout, no-such-device serial error, any
\* other serial error), run has not terminated.
C2_RunNeverTerminates ==
    lastRead.kind \in {"Telegram", "None", "TimeoutError", "ENOENT", "SerialException"}
        => pc # "terminated"

\* C3: while Streaming, a read timeout or a no-such-device error returns the
\* session to AwaitingPort: the registration is removed, the port path is
\* polled again before any further read, and TelegramReceived is signalled
\* only after a new DeviceAnnounced, itself produced from a telegram read
\* afresh.
C3_StreamingFailureReacquires ==
    /\ (lastRead.loop = "stream" /\ lastRead.kind \in {"TimeoutError", "ENOENT"}) =>
        /\ pc \in {"unregister", "wait_port", "wait_poll", "read_acquire"}
        /\ pc # "unregister" => (service = Unregistered /\ announces = 0)
        /\ pc = "read_acquire" => polled
        /\ event \notin {"TelegramReceived", "DeviceAnnounced"}
    /\ (prevRead.loop = "stream" /\ prevRead.kind \in {"TimeoutError", "ENOENT"}) =>
        /\ lastRead.loop = "acquire"
        /\ event # "TelegramReceived"
        /\ pc = "read_stream" => (lastRead = AcquiredTelegram /\ announces = 1)
    /\ event = "TelegramReceived" => (announces = 1 /\ service.registered)

\* After a read timeout in Streaming the registration is gone and the port
\* path has been polled again; the next read is about to start.
C3_Witness ==
    /\ lastRead = [kind |-> "TimeoutError", loop |-> "stream"]
    /\ pc = "read_acquire"
    /\ polled
    /\ service = Unregistered

\* C4: while Streaming, a telegram rejected by the checksum check does not
\* leave Streaming: the registration is kept, DeviceAnnounced is not
\* repeated, TelegramReceived is not signalled for the rejected telegram, and
\* the very next validated telegram produces TelegramReceived.
C4_RejectKeepsStreaming ==
    /\ lastRead = StreamedReject =>
        /\ pc = "read_stream"
        /\ service.registered
        /\ announces = 1
        /\ event = "ChecksumRejected"
        /\ telegram = NoneValue
    /\ (prevRead = StreamedReject /\ lastRead.kind = "Telegram") =>
        /\ lastRead = StreamedTelegram
        /\ event = "TelegramReceived"
        /\ announces = 1
        /\ service.registered

\* A rejected telegram was followed by a validated one, which was signalled
\* as TelegramReceived with the registration still in place.
C4_Witness ==
    /\ prevRead = StreamedReject
    /\ lastRead = StreamedTelegram
    /\ event = "TelegramReceived"
    /\ service.registered

\* The checksum rule stated apart from parse: the body is the text up to and
\* including the first "!", the checksum text what follows it without
\* trailing whitespace, the checksum of the body computed bit by bit.
BodyOf(raw) == SubSeq(raw, 1, IndexOf(raw, 33))
ChecksumText(raw) == RStrip(SubSeq(raw, IndexOf(raw, 33) + 1, Len(raw)))
ChecksumMatches(raw) ==
    /\ IndexOf(raw, 33) # 0
    /\ IntBase16(ChecksumText(raw)).ok
    /\ IntBase16(ChecksumText(raw)).val = RefCrc16(BodyOf(raw))
ChecksumMismatches(raw) ==
    /\ IndexOf(raw, 33) # 0
    /\ IntBase16(ChecksumText(raw)).ok
    /\ IntBase16(ChecksumText(raw)).val # RefCrc16(BodyOf(raw))

\* C6: parse produces a Telegram only when the text after the end marker is
\* empty or crc16 of the body equals the hexadecimal value after the end
\* marker; on a mismatch it returns None; so the telegram handed to
\* register_dbus or update_dbus is always one whose checksum did not fail.
C6_OnlyValidatedTelegrams ==
    /\ lastRead.kind = "Telegram" =>
        /\ IndexOf(lastRaw, 33) # 0
        /\ ChecksumText(lastRaw) = <<>> \/ ChecksumMatches(lastRaw)
        /\ telegram = NewTelegram(BodyOf(lastRaw))
    /\ (lastRead.kind \in {"Telegram", "None", "ValueError"} /\ ChecksumMismatches(lastRaw))
        => lastRead.kind = "None"
    /\ lastRead.kind = "None" => ChecksumMismatches(lastRaw)
    /\ (pc = "register" \/ event \in {"DeviceAnnounced", "TelegramReceived"}) =>
        /\ telegram.kind = "Telegram"
        /\ \E i \in DOMAIN readings :
            /\ readings[i].result = telegram
            /\ ~ChecksumMismatches(readings[i].raw)

\* A telegram carrying a checksum text passed the comparison and was handed
\* to update_dbus.
C6_Witness ==
    /\ event = "TelegramReceived"
    /\ lastRead = StreamedTelegram
    /\ ChecksumText(lastRaw) # <<>>
    /\ ChecksumMatches(lastRaw)

\* C11: in wait_for_p1_port the waiting message is printed at most once per
\* contiguous absence of the port path however many polls are made, not at
\* all when the path exists at the first test, and the read that opens the
\* port is reached only after a test has seen the path exist.
C11_WaitingNotifiedOnce ==
    /\ waitNotes <= 1
    /\ event = "PortWaiting" => (pc = "wait_poll" /\ ~observed)
    /\ pc = "wait_poll" => ~observed
    /\ pc = "read_acquire" => observed

\* The path stayed absent over at least one poll after the message was
\* printed once.
C11_Witness ==
    /\ pc = "wait_poll"
    /\ ~portExists
    /\ "poll" \in waits
    /\ waitNotes = 1
    /\ event = "none"

\* C12: in the acquisition loop, when the read fails because the device
\* does not exist, run sleeps the debounce time and then tests the port path
\* before the next read, and registers nothing in that cycle.
C12_NoDeviceDebounces ==
    lastRead = [kind |-> "ENOENT", loop |-> "acquire"] =>
        /\ pc \in {"debounce", "wait_port", "wait_poll", "read_acquire"}
        /\ pc # "debounce" => "debounce" \in waits
        /\ pc = "read_acquire" => observed
        /\ event # "DeviceAnnounced"
        /\ announces = 0
        /\ service = Unregistered

\* After a no-such-device failure the debounce sleep is over, the path has
\* been seen to exist and the next read is about to start.
C12_Witness ==
    /\ lastRead = [kind |-> "ENOENT", loop |-> "acquire"]
    /\ pc = "read_acquire"
    /\ "debounce" \in waits
    /\ observed

\* C14: for a validated telegram that lacks an identifier of the catalog,
\* the lookup of that identifier returns None (NotFound) and not an error,
\* and the extraction of the other identifiers from the same telegram, as
\* update_dbus does for one received telegram, is not aborted by it.
C14_MissingFieldKeepsExtraction ==
    lastRead = StreamedTelegram =>
        \A id \in DOMAIN OBIS_ID :
            ReSearch(OBIS_ID[id], telegram.data) = <<>> =>
                /\ GetItem(telegram, id) = NoneValue
                /\ Updated(telegram) # "AttributeError"

\* C19: in the acquisition loop no two consecutive attempts to open the port
\* happen without a wait between them: after every failed cycle (read
\* timeout, no-such-device error, any other serial error) the timeout of
\* the read, the debounce wait or a poll interval of wait_for_p1_port has
\* elapsed before the next attempt.
C19_WaitBetweenOpenAttempts ==
    (/\ pc = "read_acquire"
     /\ lastRead.loop = "acquire"
     /\ lastRead.kind \in {"TimeoutError", "ENOENT", "SerialException"})
        => waits # {}

=============================================================================
